---- MODULE Spec2Model ----
(***************************************************************************)
(* Model of package retry (src/retry/retry.go): ExponentialRetry, the      *)
(* context it is given, the wrapped operation fn and the timer created by  *)
(* time.After.  Every variable is a function from a call id to the state   *)
(* of that invocation; Spec runs one invocation.                           *)
(* The second part models TestingRoundTripper of package roundtrip         *)
(* (src/roundtrip/roundtrip.go), run by SpecRT.                            *)
(*                                                                         *)
(* Go's uint and time.Duration are 64 bits wide.  The model keeps the      *)
(* arithmetic (wrap-around of attempt++, two's-complement wrap of the      *)
(* multiplication, a shift count >= width giving 0) at the reduced widths  *)
(* UintBits and DurBits.                                                   *)
(***************************************************************************)
EXTENDS Integers, Sequences, FiniteSets, TLC

\* ------------------------------------------------------------------------
\* Bounds
\* ------------------------------------------------------------------------
UintBits == 2
DurBits == 3
MaxVal == 1

RECURSIVE Pow2(_)
Pow2(n) == IF n = 0 THEN 1 ELSE 2 * Pow2(n - 1)

MaxUint == Pow2(UintBits) - 1
Uints == 0..MaxUint
MinDuration == 0 - Pow2(DurBits - 1)
MaxDuration == Pow2(DurBits - 1) - 1
Durations == MinDuration..MaxDuration
\* the values of baseBackoff tried: the extremes, zero, and small ones
BaseBackoffs == {MinDuration, 0 - 1, 0, 1, 2, MaxDuration}
MaxInvocations == MaxUint + 2

\* TestingRoundTripper: length of a response list, number of RoundTrip calls
MaxLen == 3
MaxCalls == 4

\* ------------------------------------------------------------------------
\* Values of T and errors
\* ------------------------------------------------------------------------
Zero == 0
Values == 0..MaxVal

Nil == "nil"
ErrNoDeadline == "no deadline set by caller"
ErrRetryFailed == "exponential retry failed"
DeadlineExceeded == "context deadline exceeded"
Canceled == "context canceled"
OpErrs == {"transient", "permanent failure"}
ErrNoMockResponse == "no mock response available"
CtxErrs == {DeadlineExceeded, Canceled}

NoticeDeadline == "deadline exceeded"
NoticeCanceled == "canceled or timeout"

\* *http.Response values by status code (0 is nil), requests and
\* *testing.T handles
NilResponse == 0
Responses == {200, 401}
Requests == {"GET", "POST"}
NilT == "nil"
TestHandles == {NilT, "t"}

RECURSIVE ListsOfLen(_)
ListsOfLen(n) ==
    IF n = 0 THEN {<<>>}
    ELSE {Append(l, r) : l \in ListsOfLen(n - 1), r \in Responses}
ResponseLists == UNION {ListsOfLen(n) : n \in 0..MaxLen}

\* ------------------------------------------------------------------------
\* State
\* ------------------------------------------------------------------------
VARIABLES
    hasDeadline,     \* ctx.Deadline() reports a deadline
    ctxErr,          \* ctx.Err(); ctx.Done() is closed iff it is not Nil
    maxRetries,      \* argument maxRetries (uint)
    baseBackoff,     \* argument baseBackoff (time.Duration)
    asynctimerchan,  \* runtime keeps an unstopped, unreferenced timer armed
    pc,              \* position of the invocation
    attempt,         \* loop variable attempt (uint)
    result,          \* result of the latest fn()
    err,             \* err of the latest fn()
    backoff,         \* backoff computed for the latest wait
    timer,           \* timer of the latest time.After
    retVal,          \* returned value
    retErr,          \* returned error
    notices,         \* slog.Info messages emitted
    invocations,     \* history: number of fn() calls started
    completed,       \* history: number of fn() calls that returned
    failures,        \* history: number of fn() calls that returned an error
    prevErr,         \* history: err of the fn() call before the latest one
    waits,           \* history: number of backoff waits started
    doneAt,          \* history: where the invocation was when ctx became done
    race,            \* history: a select found both channels ready
    responses,       \* TestingRoundTripper.responses
    index,           \* TestingRoundTripper.index
    t,               \* TestingRoundTripper.t
    tErrors,         \* number of t.Errorf calls made on the testing handle
    lastResp,        \* response returned by the latest RoundTrip
    lastErr,         \* error returned by the latest RoundTrip
    calls,           \* history: number of RoundTrip calls
    successes,       \* history: number of RoundTrip calls that returned nil error
    reconfigured,    \* history: the list was changed after a RoundTrip call
    lastOp,          \* history: the latest method called
    lastList         \* history: the argument of WithMockResponses, while it
                     \* is the latest method called

retryVars == <<hasDeadline, ctxErr, maxRetries, baseBackoff, asynctimerchan, pc,
          attempt, result, err, backoff, timer, retVal, retErr, notices,
          invocations, completed, failures, prevErr, waits, doneAt, race>>

rtVars == <<responses, index, t, tErrors, lastResp, lastErr, calls, successes,
            reconfigured, lastOp, lastList>>

vars == <<retryVars, rtVars>>

histVars == <<completed, failures, prevErr>>

ctxVars == <<hasDeadline, ctxErr, doneAt>>
argVars == <<maxRetries, baseBackoff, asynctimerchan>>

Calls == DOMAIN pc

NotDone == [pc |-> "never", inv |-> 0]

\* ------------------------------------------------------------------------
\* Arithmetic of the loop
\* ------------------------------------------------------------------------
\* time.Duration is a signed integer: results wrap in two's complement
WrapDuration(x) ==
    LET m == x % Pow2(DurBits)
    IN  IF m >= Pow2(DurBits - 1) THEN m - Pow2(DurBits) ELSE m

\* time.Duration(1<<attempt): a shift count >= the width gives 0
ShiftOne(a) == IF a >= DurBits THEN 0 ELSE WrapDuration(Pow2(a))

\* backoff := baseBackoff * time.Duration(1<<attempt)
Backoff(base, a) == WrapDuration(base * ShiftOne(a))

\* _, ok := ctx.Deadline(); if !ok
NoDeadlineAlwaysFalse(ok) == FALSE
NoDeadline(ok) == ~ok

\* attempt++ on a uint
IncAttemptStuck(a) == a
IncAttemptTwice(a) == (a + 2) % Pow2(UintBits)
IncAttempt(a) == (a + 1) % Pow2(UintBits)

\* loop condition attempt <= maxRetries
LoopCond(a, m) == a <= m

\* if attempt == maxRetries
ExhaustedOffByOne(a, m) == a = m + 1
ExhaustedNever(a, m) == FALSE
Exhausted(a, m) == a = m

\* errors.Is(ctx.Err(), context.DeadlineExceeded)
IsDeadlineExceededAlways(e) == TRUE
IsDeadlineExceeded(e) == e = DeadlineExceeded

\* the value and error of "return result, nil" and "return zero, err"
SuccessValueZero(res) == Zero
SuccessValue(res) == res
FailureValuePartial(res) == res
FailureValue(res) == Zero
ExhaustedErrorEarlier(e, prev) == prev
ExhaustedError(e, prev) == e
\* return zero, ctx.Err() with ctx.Err() = ce; e is the err of the failed fn()
CancelErrorOperation(ce, e) == e
CancelErrorDeadline(ce, e) == DeadlineExceeded
CancelError(ce, e) == ce

\* the timer of time.After once the call has returned: never stopped by the
\* code, so it stays armed unless the runtime collects unreferenced timers
TimerAtReturn(tm) == IF tm = "armed" /\ ~asynctimerchan THEN "collected" ELSE tm

\* ------------------------------------------------------------------------
\* Init
\* ------------------------------------------------------------------------
InitCalls(ids) ==
    /\ hasDeadline \in [ids -> BOOLEAN]
    /\ ctxErr = [c \in ids |-> Nil]
    /\ maxRetries \in [ids -> Uints]
    /\ baseBackoff \in [ids -> BaseBackoffs]
    /\ asynctimerchan \in BOOLEAN
    /\ pc = [c \in ids |-> "start"]
    /\ attempt = [c \in ids |-> 0]
    /\ result = [c \in ids |-> Zero]
    /\ err = [c \in ids |-> Nil]
    /\ backoff = [c \in ids |-> 0]
    /\ timer = [c \in ids |-> "none"]
    /\ retVal = [c \in ids |-> Zero]
    /\ retErr = [c \in ids |-> Nil]
    /\ notices = [c \in ids |-> <<>>]
    /\ invocations = [c \in ids |-> 0]
    /\ completed = [c \in ids |-> 0]
    /\ failures = [c \in ids |-> 0]
    /\ prevErr = [c \in ids |-> Nil]
    /\ waits = [c \in ids |-> 0]
    /\ doneAt = [c \in ids |-> NotDone]
    /\ race = [c \in ids |-> FALSE]

\* &TestingRoundTripper{}, or the literal with a list of responses
InitRoundTripper(lists) ==
    /\ responses \in lists
    /\ index = 0
    /\ t = NilT
    /\ tErrors = 0
    /\ lastResp = NilResponse
    /\ lastErr = Nil
    /\ calls = 0
    /\ successes = 0
    /\ reconfigured = FALSE
    /\ lastOp = "none"
    /\ lastList = <<>>

Init == InitCalls({1}) /\ InitRoundTripper({<<>>})

\* ------------------------------------------------------------------------
\* The context
\* ------------------------------------------------------------------------
\* closing ctx.Done() wakes a goroutine blocked in the select with that case
CtxBecomesDone(c, e) ==
    /\ pc[c] # "done"
    /\ ctxErr[c] = Nil
    /\ ctxErr' = [ctxErr EXCEPT ![c] = e]
    /\ doneAt' = [doneAt EXCEPT ![c] = [pc |-> pc[c], inv |-> invocations[c]]]
    /\ pc' = [pc EXCEPT ![c] = IF @ = "parked" THEN "case_ctx" ELSE @]
    /\ UNCHANGED <<hasDeadline, argVars, attempt, result, err, backoff, timer,
                   retVal, retErr, notices, invocations, histVars, waits, race>>

\* the deadline of the context passes
DeadlineElapse(c) == hasDeadline[c] /\ CtxBecomesDone(c, DeadlineExceeded)

\* the caller (or a parent context) cancels the context
Cancel(c) == CtxBecomesDone(c, Canceled)

\* ------------------------------------------------------------------------
\* The timer of time.After(backoff)
\* ------------------------------------------------------------------------
\* the timer expires: its channel becomes ready; a goroutine blocked in the
\* select receives from it
TimerFire(c) ==
    /\ timer[c] = "armed"
    /\ IF pc[c] = "parked"
       THEN /\ timer' = [timer EXCEPT ![c] = "received"]
            /\ pc' = [pc EXCEPT ![c] = "case_timer"]
       ELSE /\ timer' = [timer EXCEPT ![c] = "fired"]
            /\ UNCHANGED pc
    /\ UNCHANGED <<ctxVars, argVars, attempt, result, err, backoff, retVal,
                   retErr, notices, invocations, histVars, waits, race>>

\* ------------------------------------------------------------------------
\* ExponentialRetry
\* ------------------------------------------------------------------------
\* return v, e
Return(c, v, e) ==
    /\ pc' = [pc EXCEPT ![c] = "done"]
    /\ retVal' = [retVal EXCEPT ![c] = v]
    /\ retErr' = [retErr EXCEPT ![c] = e]
    /\ timer' = [timer EXCEPT ![c] = TimerAtReturn(@)]

\* the deadline check with a test of ctx.Err() added before the loop
CheckDeadlineAndErr(c) ==
    /\ pc[c] = "start"
    /\ IF NoDeadline(hasDeadline[c])
       THEN /\ Return(c, Zero, ErrNoDeadline)
            /\ UNCHANGED attempt
       ELSE IF ctxErr[c] # Nil
       THEN /\ Return(c, Zero, ctxErr[c])
            /\ UNCHANGED attempt
       ELSE /\ attempt' = [attempt EXCEPT ![c] = 0]
            /\ pc' = [pc EXCEPT ![c] = "call"]
            /\ UNCHANGED <<retVal, retErr, timer>>
    /\ UNCHANGED <<ctxVars, argVars, result, err, backoff, notices,
                   invocations, histVars, waits, race>>

\* lines 11-17: the deadline check and the first test of the loop condition
CheckDeadline(c) ==
    /\ pc[c] = "start"
    /\ IF NoDeadline(hasDeadline[c])
       THEN /\ Return(c, Zero, ErrNoDeadline)
            /\ UNCHANGED attempt
       ELSE /\ attempt' = [attempt EXCEPT ![c] = 0]
            /\ IF LoopCond(0, maxRetries[c])
               THEN /\ pc' = [pc EXCEPT ![c] = "call"]
                    /\ UNCHANGED <<retVal, retErr, timer>>
               ELSE Return(c, Zero, ErrRetryFailed)
    /\ UNCHANGED <<ctxVars, argVars, result, err, backoff, notices,
                   invocations, histVars, waits, race>>

\* line 18: fn is called (the history counter invocations stops at
\* MaxInvocations, one more than any maxRetries allows)
Invoke(c) ==
    /\ pc[c] = "call"
    /\ invocations[c] < MaxInvocations
    /\ pc' = [pc EXCEPT ![c] = "running"]
    /\ invocations' = [invocations EXCEPT ![c] = @ + 1]
    /\ UNCHANGED <<ctxVars, argVars, attempt, result, err, backoff, timer,
                   retVal, retErr, notices, histVars, waits, race>>

\* lines 18-28: fn returns (v, e); success, exhaustion, or a new backoff wait
FnReturn(c, v, e) ==
    /\ pc[c] = "running"
    /\ result' = [result EXCEPT ![c] = v]
    /\ err' = [err EXCEPT ![c] = e]
    /\ completed' = [completed EXCEPT ![c] = @ + 1]
    /\ failures' = [failures EXCEPT ![c] = IF e = Nil THEN @ ELSE @ + 1]
    /\ prevErr' = [prevErr EXCEPT ![c] = err[c]]
    /\ IF e = Nil
       THEN /\ Return(c, SuccessValue(v), Nil)
            /\ UNCHANGED <<backoff, waits>>
       ELSE IF Exhausted(attempt[c], maxRetries[c])
       THEN /\ Return(c, FailureValue(v), ExhaustedError(e, err[c]))
            /\ UNCHANGED <<backoff, waits>>
       ELSE /\ backoff' = [backoff EXCEPT ![c] = Backoff(baseBackoff[c], attempt[c])]
            /\ timer' = [timer EXCEPT ![c] = "armed"]
            /\ waits' = [waits EXCEPT ![c] = @ + 1]
            /\ pc' = [pc EXCEPT ![c] = "select"]
            /\ UNCHANGED <<retVal, retErr>>
    /\ UNCHANGED <<ctxVars, argVars, attempt, notices, invocations, race>>

\* fn returns any value with any operation error or nil
OperationReturns(c) == \E v \in Values, e \in OpErrs \cup {Nil} : FnReturn(c, v, e)

\* the wait as a sleep on the timer alone, without the ctx.Done() case
SelectPollSleep(c) ==
    /\ pc[c] = "select"
    /\ LET timerReady == timer[c] = "fired"
           ctxReady == ctxErr[c] # Nil
       IN  /\ race' = [race EXCEPT ![c] = @ \/ (timerReady /\ ctxReady)]
           /\ \/ /\ timerReady
                 /\ timer' = [timer EXCEPT ![c] = "received"]
                 /\ pc' = [pc EXCEPT ![c] = "case_timer"]
              \/ /\ ~timerReady
                 /\ pc' = [pc EXCEPT ![c] = "parked"]
                 /\ UNCHANGED timer
    /\ UNCHANGED <<ctxVars, argVars, attempt, result, err, backoff, retVal,
                   retErr, notices, invocations, histVars, waits>>

\* line 27: the select looks at its two channels: one that is ready is
\* chosen, either when both are; it blocks when none is
SelectPoll(c) ==
    /\ pc[c] = "select"
    /\ LET timerReady == timer[c] = "fired"
           ctxReady == ctxErr[c] # Nil
       IN  /\ race' = [race EXCEPT ![c] = @ \/ (timerReady /\ ctxReady)]
           /\ \/ /\ timerReady
                 /\ timer' = [timer EXCEPT ![c] = "received"]
                 /\ pc' = [pc EXCEPT ![c] = "case_timer"]
              \/ /\ ctxReady
                 /\ pc' = [pc EXCEPT ![c] = "case_ctx"]
                 /\ UNCHANGED timer
              \/ /\ ~timerReady /\ ~ctxReady
                 /\ pc' = [pc EXCEPT ![c] = "parked"]
                 /\ UNCHANGED timer
    /\ UNCHANGED <<ctxVars, argVars, attempt, result, err, backoff, retVal,
                   retErr, notices, invocations, histVars, waits>>

\* continue, with attempt a variable shared by all invocations
CaseTimerShared(c) ==
    /\ pc[c] = "case_timer"
    /\ attempt' = [d \in Calls |-> IncAttempt(attempt[d])]
    /\ IF LoopCond(IncAttempt(attempt[c]), maxRetries[c])
       THEN /\ pc' = [pc EXCEPT ![c] = "call"]
            /\ UNCHANGED <<retVal, retErr, timer>>
       ELSE Return(c, Zero, ErrRetryFailed)
    /\ UNCHANGED <<ctxVars, argVars, result, err, backoff, notices,
                   invocations, histVars, waits, race>>

\* lines 28-30 and 17: continue: attempt++ and the loop condition
CaseTimer(c) ==
    /\ pc[c] = "case_timer"
    /\ attempt' = [attempt EXCEPT ![c] = IncAttempt(@)]
    /\ IF LoopCond(IncAttempt(attempt[c]), maxRetries[c])
       THEN /\ pc' = [pc EXCEPT ![c] = "call"]
            /\ UNCHANGED <<retVal, retErr, timer>>
       ELSE Return(c, Zero, ErrRetryFailed)
    /\ UNCHANGED <<ctxVars, argVars, result, err, backoff, notices,
                   invocations, histVars, waits, race>>

\* lines 31-37: the notice and the return of ctx.Err()
CaseCtx(c) ==
    /\ pc[c] = "case_ctx"
    /\ notices' = [notices EXCEPT ![c] =
          Append(@, IF IsDeadlineExceeded(ctxErr[c]) THEN NoticeDeadline
                                                     ELSE NoticeCanceled)]
    /\ Return(c, FailureValue(result[c]), CancelError(ctxErr[c], err[c]))
    /\ UNCHANGED <<ctxVars, argVars, attempt, result, err, backoff,
                   invocations, histVars, waits, race>>

Next ==
    \/ \E c \in Calls : CheckDeadline(c) /\ UNCHANGED rtVars
    \/ \E c \in Calls : Invoke(c) /\ UNCHANGED rtVars
    \/ \E c \in Calls : OperationReturns(c) /\ UNCHANGED rtVars
    \/ \E c \in Calls : SelectPoll(c) /\ UNCHANGED rtVars
    \/ \E c \in Calls : CaseTimer(c) /\ UNCHANGED rtVars
    \/ \E c \in Calls : CaseCtx(c) /\ UNCHANGED rtVars
    \/ \E c \in Calls : TimerFire(c) /\ UNCHANGED rtVars
    \/ \E c \in Calls : DeadlineElapse(c) /\ UNCHANGED rtVars
    \/ \E c \in Calls : Cancel(c) /\ UNCHANGED rtVars

Spec == Init /\ [][Next]_vars

\* two concurrent invocations, each with its own context (with a deadline),
\* its own budget of one retry and its own fn
InitPair ==
    /\ InitCalls({1, 2})
    /\ InitRoundTripper({<<>>})
    /\ asynctimerchan
    /\ \A c \in {1, 2} : /\ hasDeadline[c]
                         /\ maxRetries[c] = 1
                         /\ baseBackoff[c] = 1

SpecPair == InitPair /\ [][Next]_vars

\* the steps the scheduler and the runtime always take in the end: the
\* invocation runs while it is not blocked, fn returns, an armed timer fires
Progress ==
    /\ \E c \in Calls : \/ CheckDeadline(c)
                        \/ Invoke(c)
                        \/ OperationReturns(c)
                        \/ SelectPoll(c)
                        \/ CaseTimer(c)
                        \/ CaseCtx(c)
                        \/ TimerFire(c)
    /\ UNCHANGED rtVars

\* one invocation with baseBackoff = 1
InitFair == Init /\ \A c \in Calls : baseBackoff[c] = 1

FairSpec == InitFair /\ [][Next]_vars /\ WF_vars(Progress)

\* ------------------------------------------------------------------------
\* TestingRoundTripper
\* ------------------------------------------------------------------------
\* if srt.t != nil
ReportsFailureAlways(h) == TRUE
ReportsFailure(h) == h # NilT

\* srt.index++
AdvanceIndexStuck(i) == i
AdvanceIndex(i) == i + 1

\* func (srt *TestingRoundTripper) WithTest(t *testing.T)
WithTest(h) ==
    /\ t' = h
    /\ lastOp' = "WithTest"
    /\ lastList' = <<>>
    /\ UNCHANGED <<responses, index, tErrors, lastResp, lastErr, calls,
                   successes, reconfigured>>

\* WithMockResponses that also rewinds the replay position
WithMockResponsesReset(rs) ==
    /\ responses' = rs
    /\ index' = 0
    /\ reconfigured' = (reconfigured \/ calls > 0)
    /\ lastOp' = "WithMockResponses"
    /\ lastList' = rs
    /\ UNCHANGED <<t, tErrors, lastResp, lastErr, calls, successes>>

\* func (srt *TestingRoundTripper) WithMockResponses(responses []*http.Response)
WithMockResponses(rs) ==
    /\ responses' = rs
    /\ reconfigured' = (reconfigured \/ calls > 0)
    /\ lastOp' = "WithMockResponses"
    /\ lastList' = rs
    /\ UNCHANGED <<index, t, tErrors, lastResp, lastErr, calls, successes>>

\* func (srt *TestingRoundTripper) AddMockResponse(response *http.Response)
AddMockResponse(r) ==
    /\ Len(responses) < MaxLen
    /\ responses' = Append(responses, r)
    /\ reconfigured' = (reconfigured \/ calls > 0)
    /\ lastOp' = "AddMockResponse"
    /\ lastList' = <<>>
    /\ UNCHANGED <<index, t, tErrors, lastResp, lastErr, calls, successes>>

\* func (srt *TestingRoundTripper) RoundTrip(_ *http.Request)
RoundTrip(req) ==
    /\ calls < MaxCalls
    /\ calls' = calls + 1
    /\ lastOp' = "RoundTrip"
    /\ IF index >= Len(responses)
       THEN /\ tErrors' = IF ReportsFailure(t) THEN tErrors + 1 ELSE tErrors
            /\ lastResp' = NilResponse
            /\ lastErr' = ErrNoMockResponse
            /\ UNCHANGED <<index, successes>>
       ELSE /\ lastResp' = responses[index + 1]
            /\ index' = AdvanceIndex(index)
            /\ lastErr' = Nil
            /\ successes' = successes + 1
            /\ UNCHANGED tErrors
    /\ lastList' = <<>>
    /\ UNCHANGED <<responses, t, reconfigured>>

InitRT ==
    /\ InitCalls({})
    /\ ~asynctimerchan
    /\ InitRoundTripper(ResponseLists)

NextRT ==
    \/ \E h \in TestHandles : WithTest(h) /\ UNCHANGED retryVars
    \/ \E rs \in ResponseLists : WithMockResponses(rs) /\ UNCHANGED retryVars
    \/ \E r \in Responses : AddMockResponse(r) /\ UNCHANGED retryVars
    \/ \E req \in Requests : RoundTrip(req) /\ UNCHANGED retryVars

SpecRT == InitRT /\ [][NextRT]_vars

TypeOKRT ==
    /\ responses \in ResponseLists
    /\ index \in 0..MaxLen
    /\ t \in TestHandles
    /\ lastResp \in Responses \cup {NilResponse}
    /\ lastErr \in {Nil, ErrNoMockResponse}
    /\ calls \in 0..MaxCalls

\* ------------------------------------------------------------------------
\* Type invariant
\* ------------------------------------------------------------------------
Pcs == {"start", "call", "running", "select", "parked", "case_timer",
        "case_ctx", "done"}
WaitPcs == {"select", "parked"}

TypeOK ==
    /\ pc \in [Calls -> Pcs]
    /\ attempt \in [Calls -> Uints]
    /\ backoff \in [Calls -> Durations]
    /\ timer \in [Calls -> {"none", "armed", "fired", "received", "collected"}]
    /\ retErr \in [Calls -> OpErrs \cup CtxErrs \cup {Nil, ErrNoDeadline, ErrRetryFailed}]
    /\ retVal \in [Calls -> Values]

\* ------------------------------------------------------------------------
\* Properties of ExponentialRetry
\* ------------------------------------------------------------------------
Returned(c) == pc[c] = "done"

\* C1: one call of ExponentialRetry invokes the operation at most
\* maxRetries + 1 times, whatever the operation returns and whenever the
\* context becomes done.
InvocationsBounded ==
    \A c \in Calls : invocations[c] <= maxRetries[c] + 1

InvocationsBoundedWitness ==
    \E c \in Calls : /\ Returned(c)
                     /\ maxRetries[c] = MaxUint
                     /\ invocations[c] = maxRetries[c] + 1

\* C2: when the operation fails on invocations 0..k-1 and succeeds on
\* invocation k <= maxRetries, the call has returned that value with a nil
\* error after exactly k+1 invocations and k waits, no wait or timer follows
\* the success; and the call gives up with an error of its own (not the
\* context's, not the missing deadline) only when every invocation
\* 0..maxRetries was made.
SuccessAfterRetries ==
    \A c \in Calls :
        /\ completed[c] > failures[c] =>
              /\ Returned(c)
              /\ hasDeadline[c]
              /\ retErr[c] = Nil
              /\ retVal[c] = result[c]
              /\ failures[c] <= maxRetries[c]
              /\ invocations[c] = failures[c] + 1
              /\ completed[c] = failures[c] + 1
              /\ waits[c] = failures[c]
              /\ timer[c] \in {"none", "received"}
        /\ (Returned(c) /\ retErr[c] \notin CtxErrs \cup {Nil, ErrNoDeadline})
              => completed[c] = maxRetries[c] + 1

SuccessAfterRetriesWitness ==
    \E c \in Calls : /\ Returned(c)
                     /\ retErr[c] = Nil
                     /\ failures[c] = 2
                     /\ invocations[c] = 3
                     /\ retVal[c] # Zero

\* C3: when the operation has failed on every invocation 0..maxRetries, the
\* call has returned after exactly maxRetries + 1 invocations with the error
\* of the last invocation, unwrapped; a call that returns an error that is
\* neither the context's nor the missing deadline returns that last error.
ExhaustionReturnsLastError ==
    \A c \in Calls :
        /\ failures[c] = maxRetries[c] + 1 =>
              /\ Returned(c)
              /\ invocations[c] = maxRetries[c] + 1
              /\ completed[c] = maxRetries[c] + 1
              /\ retErr[c] = err[c]
              /\ retErr[c] \in OpErrs
        /\ (Returned(c) /\ retErr[c] \notin CtxErrs \cup {Nil, ErrNoDeadline})
              => /\ retErr[c] = err[c]
                 /\ failures[c] = maxRetries[c] + 1

ExhaustionReturnsLastErrorWitness ==
    \E c \in Calls : /\ Returned(c)
                     /\ maxRetries[c] >= 2
                     /\ failures[c] = maxRetries[c] + 1
                     /\ prevErr[c] \in OpErrs
                     /\ prevErr[c] # err[c]
                     /\ retErr[c] = err[c]

\* C4: with a context that has no deadline the call returns the error
\* "no deadline set by caller" and the zero value, having invoked the
\* operation zero times and started no wait and no timer.
NoDeadlineConfigError ==
    \A c \in Calls :
        (~hasDeadline[c] /\ pc[c] # "start") =>
            /\ Returned(c)
            /\ retErr[c] = ErrNoDeadline
            /\ retVal[c] = Zero
            /\ invocations[c] = 0
            /\ waits[c] = 0
            /\ timer[c] = "none"
            /\ notices[c] = <<>>

NoDeadlineConfigErrorWitness ==
    \E c \in Calls : /\ ~hasDeadline[c]
                     /\ Returned(c)
                     /\ maxRetries[c] > 0
                     /\ baseBackoff[c] > 0

\* the context became done while the call was in a backoff wait: after
\* time.After armed the timer and before the select chose a case
DoneInWait(c) == doneAt[c].pc \in WaitPcs

\* C5 as stated: when the deadline elapses during a backoff wait (of a call
\* with a positive baseBackoff), the operation is not invoked again and the
\* call returns the context's deadline-exceeded error, for every interleaving
\* of the timer expiry and the context signal.
DeadlineInWaitStopsCall ==
    \A c \in Calls :
        (DoneInWait(c) /\ ctxErr[c] = DeadlineExceeded /\ baseBackoff[c] > 0) =>
            /\ invocations[c] = doneAt[c].inv
            /\ Returned(c) => retErr[c] = DeadlineExceeded

\* C5 amended: when the deadline elapses during a backoff wait and the select
\* does not find the timer channel ready as well (it cannot when the call is
\* already blocked in the select), the operation is not invoked again and the
\* call returns the context's deadline-exceeded error with the zero value.
DeadlineInWaitStopsCallUnlessRace ==
    \A c \in Calls :
        (DoneInWait(c) /\ ctxErr[c] = DeadlineExceeded /\ ~race[c]) =>
            /\ invocations[c] = doneAt[c].inv
            /\ pc[c] \in {"select", "case_ctx", "done"}
            /\ Returned(c) => /\ retErr[c] = DeadlineExceeded
                              /\ retVal[c] = Zero

DeadlineInWaitWitness ==
    \E c \in Calls : /\ doneAt[c].pc = "parked"
                     /\ ctxErr[c] = DeadlineExceeded
                     /\ Returned(c)
                     /\ retErr[c] = DeadlineExceeded
                     /\ attempt[c] >= 1

\* C6 as stated: for a positive baseBackoff, the wait started after failed
\* attempt i lasts exactly baseBackoff * 2^i and is positive.
BackoffIsBaseTimesPow2 ==
    \A c \in Calls :
        (pc[c] \in WaitPcs /\ baseBackoff[c] > 0) =>
            /\ backoff[c] = baseBackoff[c] * Pow2(attempt[c])
            /\ backoff[c] > 0

\* C7 as stated: when the context is cancelled (not by its deadline) during
\* a backoff wait (of a call with a positive baseBackoff), the call returns
\* the context's cancellation error, not the deadline-exceeded error and not
\* the error of the failed attempt.
CancelInWaitReturnsCanceled ==
    \A c \in Calls :
        (DoneInWait(c) /\ ctxErr[c] = Canceled /\ baseBackoff[c] > 0
            /\ Returned(c)) =>
            /\ retErr[c] = Canceled
            /\ retErr[c] # DeadlineExceeded
            /\ retErr[c] # err[c]

\* C7 amended: the same, when the select does not find the timer channel
\* ready as well as ctx.Done(); the wait is one before the budget is
\* exhausted and the error of the failed attempt is dropped.
CancelInWaitReturnsCanceledUnlessRace ==
    \A c \in Calls :
        (DoneInWait(c) /\ ctxErr[c] = Canceled /\ ~race[c] /\ Returned(c)) =>
            /\ retErr[c] = Canceled
            /\ retErr[c] # DeadlineExceeded
            /\ err[c] \in OpErrs
            /\ retErr[c] # err[c]
            /\ retVal[c] = Zero
            /\ attempt[c] < maxRetries[c]

CancelInWaitWitness ==
    \E c \in Calls : /\ DoneInWait(c)
                     /\ ctxErr[c] = Canceled
                     /\ ~race[c]
                     /\ Returned(c)
                     /\ retErr[c] = Canceled
                     /\ err[c] \in OpErrs

\* C8 as stated: when the call (with a positive baseBackoff) has returned,
\* no timer it created is still armed and unfired.
NoTimerPendingAtReturn ==
    \A c \in Calls :
        (Returned(c) /\ baseBackoff[c] > 0) => timer[c] # "armed"

\* C9: the context ends a call only at a backoff wait: a context error is
\* returned only after a failed invocation, with attempt < maxRetries and a
\* wait started after that invocation; a context that is done before an
\* invocation starts or while it runs neither prevents nor aborts it; a
\* success is returned as success and the failure of the final attempt as
\* the operation's error, also when the context is done.
ContextEndsCallOnlyAtWait ==
    \A c \in Calls :
        /\ (Returned(c) /\ retErr[c] \in CtxErrs) =>
              /\ failures[c] >= 1
              /\ attempt[c] < maxRetries[c]
              /\ completed[c] = invocations[c]
              /\ waits[c] = completed[c]
              /\ err[c] \in OpErrs
              /\ retErr[c] = ctxErr[c]
        /\ (Returned(c) /\ hasDeadline[c] /\ doneAt[c].pc \in {"start", "call"})
              => completed[c] >= doneAt[c].inv + 1
        /\ (Returned(c) /\ doneAt[c].pc = "running")
              => completed[c] >= doneAt[c].inv
        /\ (Returned(c) /\ ctxErr[c] # Nil /\ completed[c] > failures[c])
              => (retErr[c] = Nil /\ retVal[c] = result[c])
        /\ (Returned(c) /\ ctxErr[c] # Nil /\ failures[c] = maxRetries[c] + 1)
              => retErr[c] = err[c]

ContextEndsCallOnlyAtWaitWitness ==
    \E c \in Calls : /\ doneAt[c].pc = "start"
                     /\ hasDeadline[c]
                     /\ Returned(c)
                     /\ maxRetries[c] = 0
                     /\ retErr[c] \in OpErrs

\* C10: a returned non-nil error comes with the zero value, also when the
\* failed operation returned a non-zero value with its error; a nil error
\* comes with exactly the value the operation returned on its success.
ErrorOrValue ==
    \A c \in Calls :
        Returned(c) =>
            /\ retErr[c] # Nil => retVal[c] = Zero
            /\ retErr[c] = Nil => /\ retVal[c] = result[c]
                                  /\ err[c] = Nil
                                  /\ completed[c] = failures[c] + 1

ErrorOrValueWitness ==
    \E c \in Calls : /\ Returned(c)
                     /\ retErr[c] \in OpErrs
                     /\ result[c] # Zero
                     /\ retVal[c] = Zero

\* ------------------------------------------------------------------------
\* Concurrent invocations
\* ------------------------------------------------------------------------
\* everything one invocation owns
CallState(c) ==
    <<hasDeadline[c], ctxErr[c], maxRetries[c], baseBackoff[c], pc[c],
      attempt[c], result[c], err[c], backoff[c], timer[c], retVal[c],
      retErr[c], notices[c], invocations[c], completed[c], failures[c],
      prevErr[c], waits[c], doneAt[c], race[c]>>

\* the outcome and the invocation count of a returned call, as a function
\* of what happened to that call alone
OutcomeAlone(c) ==
    IF ~hasDeadline[c]
    THEN retErr[c] = ErrNoDeadline /\ retVal[c] = Zero /\ invocations[c] = 0
    ELSE IF completed[c] > failures[c]
    THEN /\ retErr[c] = Nil /\ retVal[c] = result[c]
         /\ invocations[c] = failures[c] + 1
    ELSE IF failures[c] = maxRetries[c] + 1
    THEN /\ retErr[c] = err[c] /\ retVal[c] = Zero
         /\ invocations[c] = maxRetries[c] + 1
    ELSE /\ retErr[c] = ctxErr[c] /\ retErr[c] \in CtxErrs /\ retVal[c] = Zero
         /\ invocations[c] = failures[c]
         /\ invocations[c] <= maxRetries[c]

\* C11: of two concurrent invocations, a step changes the state (attempt
\* counter, last error, timer and all the rest) of at most one, and each
\* returned invocation has the outcome and the invocation count that its own
\* context, budget and operation results determine.
ConcurrentCallsIndependent ==
    /\ [](\A c \in Calls : Returned(c) => OutcomeAlone(c))
    /\ [][\A c, d \in Calls :
            (c # d /\ CallState(c)' # CallState(c))
                => /\ CallState(d)' = CallState(d)
                   /\ attempt'[d] = attempt[d]
                   /\ err'[d] = err[d]
                   /\ timer'[d] = timer[d]]_vars

ConcurrentCallsIndependentWitness ==
    /\ Calls = {1, 2}
    /\ Returned(1) /\ Returned(2)
    /\ retErr[1] = Nil /\ invocations[1] = 2 /\ attempt[1] = 1
    /\ retErr[2] \in CtxErrs /\ invocations[2] = 1 /\ attempt[2] = 0

\* ------------------------------------------------------------------------
\* The notice, the fallback error, termination, counters
\* ------------------------------------------------------------------------
\* C12: at most one notice per invocation, emitted exactly when the call
\* returns from the ctx.Done() case (never on success, exhaustion or a
\* missing deadline); the notice names the context's reason and the
\* returned error is the context's error whichever notice it is.
NoticeOnlyAtCancellation ==
    \A c \in Calls :
        /\ Len(notices[c]) <= 1
        /\ notices[c] # <<>> <=> (Returned(c) /\ retErr[c] \in CtxErrs)
        /\ notices[c] # <<>> =>
              /\ retErr[c] = ctxErr[c]
              /\ notices[c][1] = IF ctxErr[c] = DeadlineExceeded
                                 THEN NoticeDeadline ELSE NoticeCanceled

NoticeOnlyAtCancellationWitness ==
    \E c \in Calls : /\ Returned(c)
                     /\ notices[c] = <<NoticeCanceled>>
                     /\ retErr[c] = Canceled

\* C15: the fallback error "exponential retry failed" is never returned,
\* for every maxRetries up to the largest uint: the loop goes on only with
\* attempt < maxRetries, and the returned error is nil, the configuration
\* error, an operation error or the context's error.
FallbackNeverReturned ==
    \A c \in Calls :
        /\ retErr[c] # ErrRetryFailed
        /\ Returned(c) => retErr[c] \in {Nil, ErrNoDeadline} \cup OpErrs \cup CtxErrs
        /\ attempt[c] <= maxRetries[c]
        /\ pc[c] \in WaitPcs \cup {"case_timer", "case_ctx"}
              => attempt[c] < maxRetries[c]

FallbackNeverReturnedWitness ==
    \E c \in Calls : /\ Returned(c)
                     /\ maxRetries[c] = MaxUint
                     /\ attempt[c] = MaxUint
                     /\ failures[c] = MaxUint + 1
                     /\ retErr[c] \in OpErrs

\* C16: with the invocation scheduled, fn returning and an armed timer
\* firing, every invocation of ExponentialRetry returns in the end.
EventuallyReturns == <>(\A c \in Calls : Returned(c))

EventuallyReturnsWitness ==
    \E c \in Calls : /\ Returned(c)
                     /\ maxRetries[c] = MaxUint
                     /\ waits[c] = MaxUint
                     /\ ctxErr[c] = Nil

\* the invocations a call may still start once its context is done: the one
\* it was about to start, none when fn was running or the call was waiting
FurtherInvocations(c) ==
    IF doneAt[c].pc \in {"start", "call", "case_timer"} THEN 1 ELSE 0

\* C17 as stated: once the context is done, a call (with a positive
\* baseBackoff) starts at most one further invocation and does not go on
\* from a wait to another attempt.
AtMostOneInvocationAfterDone ==
    \A c \in Calls :
        (ctxErr[c] # Nil /\ baseBackoff[c] > 0) =>
            /\ invocations[c] <= doneAt[c].inv + 1
            /\ pc[c] = "case_timer" => doneAt[c].pc = "case_timer"

\* C17 amended: the same, as long as no select of the call has found the
\* timer channel ready together with ctx.Done().
AtMostOneInvocationAfterDoneUnlessRace ==
    \A c \in Calls :
        (ctxErr[c] # Nil /\ ~race[c]) =>
            /\ invocations[c] <= doneAt[c].inv + FurtherInvocations(c)
            /\ pc[c] = "case_timer" => doneAt[c].pc = "case_timer"

AtMostOneInvocationAfterDoneWitness ==
    \E c \in Calls : /\ doneAt[c].pc = "start"
                     /\ hasDeadline[c]
                     /\ baseBackoff[c] > 0
                     /\ maxRetries[c] >= 2
                     /\ ~race[c]
                     /\ Returned(c)
                     /\ invocations[c] = 1
                     /\ retErr[c] \in CtxErrs

\* C18: the number of waits started is at most maxRetries and equals the
\* number of completed invocations or one less; a call that returned a
\* success or an operation error started invocations - 1 waits, one that
\* returned the context's error started as many waits as invocations; a
\* success and the failure of the final attempt end the call without a wait.
WaitsFollowFailures ==
    \A c \in Calls :
        /\ waits[c] <= maxRetries[c]
        /\ waits[c] \in {completed[c], completed[c] - 1}
        /\ (Returned(c) /\ retErr[c] \in OpErrs \cup {Nil})
              => waits[c] = invocations[c] - 1
        /\ (Returned(c) /\ retErr[c] \in CtxErrs)
              => waits[c] = invocations[c]
        /\ (completed[c] > failures[c] \/ failures[c] = maxRetries[c] + 1)
              => /\ Returned(c)
                 /\ waits[c] = completed[c] - 1
                 /\ timer[c] \in {"none", "received"}

WaitsFollowFailuresWitness ==
    \E c \in Calls : /\ Returned(c)
                     /\ retErr[c] \in CtxErrs
                     /\ waits[c] = 2
                     /\ invocations[c] = 2

\* C19: attempt stays within [0, maxRetries], starts at 0, changes only by
\* +1 and only in the step that continues the loop after the timer ended a
\* wait; while fn is about to run or running it equals the number of
\* completed invocations.
AttemptCounts ==
    /\ [](\A c \in Calls :
            /\ attempt[c] \in 0..maxRetries[c]
            /\ pc[c] = "start" => attempt[c] = 0
            /\ pc[c] \in {"call", "running"} => attempt[c] = completed[c])
    /\ [][\A c \in Calls :
            \/ attempt'[c] = attempt[c]
            \/ /\ attempt'[c] = attempt[c] + 1
               /\ pc[c] = "case_timer"
               /\ timer[c] = "received"]_vars

AttemptCountsWitness ==
    \E c \in Calls : /\ pc[c] = "running"
                     /\ attempt[c] = MaxUint
                     /\ completed[c] = MaxUint

\* ------------------------------------------------------------------------
\* Properties of TestingRoundTripper
\* ------------------------------------------------------------------------
\* C13: while the list has not been changed since the first RoundTrip call,
\* the i-th call (i < n) returns the i-th response with a nil error,
\* whatever the request, and the replay position has moved by one per call,
\* so no response is returned twice or skipped.
ReplayInOrder ==
    (~reconfigured /\ calls >= 1 /\ calls <= Len(responses)) =>
        /\ lastResp = responses[calls]
        /\ lastErr = Nil
        /\ index = calls
        /\ successes = calls

ReplayInOrderWitness ==
    /\ ~reconfigured
    /\ Len(responses) = 3
    /\ responses[1] # responses[2]
    /\ calls = 3
    /\ lastResp = responses[3]
    /\ index = 3

\* a step that is a RoundTrip call
RoundTripStep == calls' = calls + 1

\* C14: a RoundTrip call with index >= len(responses) returns a nil response
\* with ErrNoMockResponse, leaves index, list and handle unchanged, and calls
\* t.Errorf exactly when the handle is set; a call that finds a response
\* returns no error and records no failure.
NoMockResponseFails ==
    [][/\ (RoundTripStep /\ index >= Len(responses)) =>
             /\ lastResp' = NilResponse
             /\ lastErr' = ErrNoMockResponse
             /\ index' = index
             /\ responses' = responses
             /\ t' = t
             /\ successes' = successes
             /\ tErrors' = IF t # NilT THEN tErrors + 1 ELSE tErrors
       /\ (RoundTripStep /\ index < Len(responses)) =>
             /\ lastErr' = Nil
             /\ lastResp' # NilResponse
             /\ tErrors' = tErrors]_vars

NoMockResponseFailsWitness ==
    /\ lastOp = "RoundTrip"
    /\ lastErr = ErrNoMockResponse
    /\ lastResp = NilResponse
    /\ t # NilT
    /\ tErrors = 2
    /\ index = 1
    /\ Len(responses) = 1

\* C20: index always equals the number of successful RoundTrip calls;
\* AddMockResponse appends one response and keeps the others in order,
\* WithMockResponses replaces the list by its argument, WithTest sets the
\* handle only, and none of the three changes index; a successful RoundTrip
\* returns the element of the current list at index and adds one to index.
ConfigKeepsIndex ==
    /\ [](index = successes)
    /\ [][/\ lastOp' = "AddMockResponse" =>
                /\ \E r \in Responses : responses' = Append(responses, r)
                /\ SubSeq(responses', 1, Len(responses)) = responses
                /\ index' = index /\ t' = t
          /\ lastOp' = "WithMockResponses" =>
                /\ responses' = lastList'
                /\ index' = index /\ t' = t
          /\ lastOp' = "WithTest" =>
                /\ responses' = responses
                /\ index' = index
          /\ (RoundTripStep /\ lastErr' = Nil) =>
                /\ index < Len(responses)
                /\ lastResp' = responses[index + 1]
                /\ index' = index + 1
                /\ responses' = responses]_vars

ConfigKeepsIndexWitness ==
    /\ lastOp = "RoundTrip"
    /\ reconfigured
    /\ index = 2
    /\ successes = 2
    /\ calls = 3
    /\ Len(responses) = 2
    /\ lastResp = responses[2]
====
